---- MODULE Spec2Model ----
(***************************************************************************)
(* Git Line Diff Counter (src/src/extension.ts, richer variant, lines      *)
(* 226-663): one computation pass of getLineStats over the results of its  *)
(* git and file reads, followed by the rendering of the status bar text   *)
(* and tooltip in the completion callback of updateStatusBar.  Spec is one *)
(* pass on its own; Sched is the scheduling of passes by updateStatusBar:  *)
(* the event handlers of activate, the debounce timer, and the passes the  *)
(* timer starts, with time and with a repository that changes; Life is     *)
(* Sched with the deactivation of the extension.                           *)
(*                                                                         *)
(* Text is modelled as follows.  Numstat fields and file contents are      *)
(* sequences of one-character strings, paths are sequences of path         *)
(* segments, rendered display strings are TLA+ strings.                    *)
(***************************************************************************)
EXTENDS Integers, Sequences, FiniteSets, TLC

VARIABLES
    repo,           \* what the workspace, git and the file system answer
    updateTimeout,  \* the debounce timer armed by updateStatusBar
    pass,           \* locals of the getLineStats call in flight
    statusBarItem,  \* the display sink: text and tooltip
    timers,         \* the timeouts armed with setTimeout and not yet run or cleared
    calls,          \* the getLineStats calls the debounce timer started, in start order
    events,         \* counters of what has happened: calls, handles, elapsed time
    disposed        \* whether deactivate has disposed the status bar item

sched == <<timers, calls, events, disposed>>

vars == <<repo, updateTimeout, pass, statusBarItem, timers, calls, events, disposed>>

(***************************************************************************)
(* Bounds of the model.                                                    *)
(***************************************************************************)
MaxLines == 2       \* numstat lines of the unstaged diff
MaxStaged == 2      \* numstat lines of the staged diff
MaxStatus == 2      \* entries of the status listing
MaxEvents == 2      \* events after activation: triggers and repository changes

(***************************************************************************)
(* Constants of the program.                                               *)
(***************************************************************************)
Delay == 500        \* the debounce delay of updateStatusBar, in ms

(***************************************************************************)
(* Characters, numbers and strings.                                        *)
(***************************************************************************)
NL == "\n"

Digits == <<"0", "1", "2", "3", "4", "5", "6", "7", "8", "9">>

IsDigit(c) == \E d \in 1..10 : Digits[d] = c

DigitVal(c) == (CHOOSE d \in 1..10 : Digits[d] = c) - 1

RECURSIVE LeadingDigits(_)
LeadingDigits(s) ==
    IF s = <<>> \/ ~IsDigit(s[1]) THEN <<>>
    ELSE <<s[1]>> \o LeadingDigits(Tail(s))

RECURSIVE DigitsValue(_)
DigitsValue(ds) ==
    IF ds = <<>> THEN 0
    ELSE 10 * DigitsValue(SubSeq(ds, 1, Len(ds) - 1)) + DigitVal(ds[Len(ds)])

\* A JavaScript number that may be NaN: <<>> is NaN, <<n>> is the number n.
NaN == <<>>

\* parseInt(s): optional sign, then the leading decimal digits; NaN if none.
ParseInt(s) ==
    LET signed == s # <<>> /\ s[1] \in {"-", "+"}
        ds == LeadingDigits(IF signed THEN Tail(s) ELSE s)
    IN  IF ds = <<>> THEN NaN
        ELSE IF signed /\ s[1] = "-" THEN <<0 - DigitsValue(ds)>>
        ELSE <<DigitsValue(ds)>>

\* x || 0 on a number: NaN and 0 are falsy.
OrZero(x) == IF x = NaN THEN 0 ELSE x[1]

ParseCount(field) == OrZero(ParseInt(field))

RECURSIVE Dec(_)
Dec(n) == IF n < 10 THEN Digits[n + 1] ELSE Dec(n \div 10) \o Digits[(n % 10) + 1]

\* `${n}` for an integer n.
NumToStr(n) == IF n < 0 THEN "-" \o Dec(0 - n) ELSE Dec(n)

\* Faulty variant of SignedStr: the sign is tested with n > 0.
SignedStrPositive(n) == (IF n > 0 THEN "+" ELSE "") \o NumToStr(n)

\* `${n >= 0 ? '+' : ''}${n}`
SignedStr(n) == (IF n >= 0 THEN "+" ELSE "") \o NumToStr(n)

\* content.split(sep): the segments between occurrences of sep.  The text is
\* split by halves: the last segment of the left half continues in the first
\* segment of the right half.
RECURSIVE Split(_, _)
Split(s, sep) ==
    IF Len(s) = 0 THEN << <<>> >>
    ELSE IF Len(s) = 1 THEN (IF s[1] = sep THEN << <<>>, <<>> >> ELSE <<s>>)
    ELSE LET half == Len(s) \div 2
             left == Split(SubSeq(s, 1, half), sep)
             right == Split(SubSeq(s, half + 1, Len(s)), sep)
         IN  SubSeq(left, 1, Len(left) - 1)
             \o <<left[Len(left)] \o right[1]>>
             \o Tail(right)

\* Faulty variant of SplitLines: the empty segment behind a final newline is not counted.
SplitLinesTrimmed(content) ==
    Len(Split(content, NL))
    - (IF content # <<>> /\ content[Len(content)] = NL THEN 1 ELSE 0)

\* content.split('\n').length
SplitLines(content) == Len(Split(content, NL))

(***************************************************************************)
(* Results of calls that may throw: Ok(v) returns v, Thrown is an          *)
(* exception leaving the call.                                             *)
(***************************************************************************)
Ok(v) == [ok |-> TRUE, value |-> v]

Thrown == [ok |-> FALSE, value |-> 0]

(***************************************************************************)
(* File Resolver: getFileTotalLines and getDeletedFileLinesFromGit.        *)
(* repo.files[filePath] holds what the file system and git answer for the  *)
(* path: exists/readable/content for fs.existsSync and fs.readFileSync,    *)
(* head for git show HEAD:path, log for git log --follow -- path, and      *)
(* at[hash] for git show hash:path.                                        *)
(***************************************************************************)

\* try-block of getDeletedFileLinesFromGit: the content at HEAD.
ShowHeadLines(filePath) ==
    LET f == repo.files[filePath]
    IN  IF ~repo.rootPath THEN Ok(0)
        ELSE IF f.head.ok THEN Ok(SplitLines(f.head.out))
        ELSE Thrown

\* inner try-block of the catch: the first commit listed by git log --follow.
ShowLastCommitLines(filePath) ==
    LET f == repo.files[filePath]
    IN  IF ~repo.rootPath THEN Ok(0)
        ELSE IF ~f.log.ok THEN Thrown
        ELSE IF Len(f.log.all) > 0
             THEN LET lastCommitHash == f.log.all[1]
                      showResult == f.at[lastCommitHash]
                  IN  IF showResult.ok THEN Ok(SplitLines(showResult.out)) ELSE Thrown
        ELSE Ok(0)

\* Faulty variant of GetDeletedFileLinesFromGit: the history search runs before HEAD.
GetDeletedFileLinesHistoryFirst(filePath) ==
    LET fromLog == ShowLastCommitLines(filePath)
    IN  IF fromLog.ok /\ fromLog.value > 0 THEN fromLog
        ELSE LET fromHead == ShowHeadLines(filePath)
             IN  IF fromHead.ok THEN fromHead ELSE Ok(0)

GetDeletedFileLinesFromGit(filePath) ==
    LET fromHead == ShowHeadLines(filePath)
    IN  IF fromHead.ok THEN fromHead
        ELSE LET fromLog == ShowLastCommitLines(filePath)
             IN  IF fromLog.ok THEN fromLog ELSE Ok(0)

\* Faulty variant of ReadTotalLines: a file without content has no line.
ReadTotalLinesEmptyZero(filePath) ==
    LET f == repo.files[filePath]
    IN  IF ~repo.rootPath THEN Ok(0)
        ELSE IF f.exists
             THEN IF ~f.readable THEN Thrown
                  ELSE IF f.content = <<>> THEN Ok(0)
                  ELSE Ok(SplitLines(f.content))
        ELSE GetDeletedFileLinesFromGit(filePath)

\* try-block of getFileTotalLines.
ReadTotalLines(filePath) ==
    LET f == repo.files[filePath]
    IN  IF ~repo.rootPath THEN Ok(0)
        ELSE IF f.exists
             THEN IF f.readable THEN Ok(SplitLines(f.content)) ELSE Thrown
        ELSE GetDeletedFileLinesFromGit(filePath)

\* Faulty variant of GetFileTotalLines: the exception of a failed read is not caught.
GetFileTotalLinesUncaught(filePath) == ReadTotalLines(filePath)

GetFileTotalLines(filePath) ==
    LET r == ReadTotalLines(filePath)
    IN  IF r.ok THEN r ELSE Ok(0)

(***************************************************************************)
(* Diff Collector and Aggregator: getLineStats.                            *)
(***************************************************************************)

\* A numstat line split on tabs; the empty line has three empty fields.
BlankLine == [added |-> <<>>, removed |-> <<>>, path |-> <<>>]

\* output.trim().split('\n'): an empty output is one empty line.
TrimSplit(out) == IF out = <<>> THEN <<BlankLine>> ELSE out

\* line.trim() is truthy
NonBlank(line) == line # BlankLine

FileChange(path, add, del, net, fileStatus, totalLines) ==
    [path |-> path, linesAdded |-> add, linesDeleted |-> del, netLines |-> net,
     status |-> fileStatus, totalLines |-> totalLines]

\* Faulty variant of FileStatus: an A or D in either slot decides the status.
FileStatusEitherSlot(status, path, slot) ==
    LET hits == {n \in 1..Len(status) : status[n].path = path}
    IN  IF hits = {} THEN "Mod"
        ELSE LET statusFile == status[CHOOSE n \in hits : \A m \in hits : n <= m]
             IN  IF "A" \in {statusFile.index, statusFile.working_dir} THEN "New"
                 ELSE IF "D" \in {statusFile.index, statusFile.working_dir} THEN "Del"
                 ELSE "Mod"

\* status.files.find(f => f.path === path), then the slot's character.
FileStatus(status, path, slot) ==
    LET hits == {n \in 1..Len(status) : status[n].path = path}
    IN  IF hits = {} THEN "Mod"
        ELSE LET statusFile == status[CHOOSE n \in hits : \A m \in hits : n <= m]
                 code == IF slot = "working_dir" THEN statusFile.working_dir
                         ELSE statusFile.index
             IN  IF code = "A" THEN "New"
                 ELSE IF code = "D" THEN "Del"
                 ELSE "Mod"

\* status.files.filter(f => f.working_dir === '?')
RECURSIVE UntrackedFiles(_)
UntrackedFiles(status) ==
    IF status = <<>> THEN <<>>
    ELSE (IF status[1].working_dir = "?" THEN <<status[1]>> ELSE <<>>)
         \o UntrackedFiles(Tail(status))

\* files.sort((a, b) => b.netLines - a.netLines): Array.prototype.sort is
\* stable, so an element goes behind every element that does not sort after it.
\* Faulty variant of InsertByNet: an element goes before the elements it ties with.
RECURSIVE InsertBeforeTies(_, _)
InsertBeforeTies(sorted, x) ==
    IF sorted = <<>> THEN <<x>>
    ELSE IF x.netLines - sorted[1].netLines >= 0 THEN <<x>> \o sorted
    ELSE <<sorted[1]>> \o InsertBeforeTies(Tail(sorted), x)

RECURSIVE InsertByNet(_, _)
InsertByNet(sorted, x) ==
    IF sorted = <<>> THEN <<x>>
    ELSE IF x.netLines - sorted[1].netLines > 0 THEN <<x>> \o sorted
    ELSE <<sorted[1]>> \o InsertByNet(Tail(sorted), x)

RECURSIVE SortByNetLines(_)
SortByNetLines(files) ==
    IF files = <<>> THEN <<>>
    ELSE InsertByNet(SortByNetLines(SubSeq(files, 1, Len(files) - 1)), files[Len(files)])

LineStats(cAdd, cDel, cFiles, sAdd, sDel, sFiles, error) ==
    [changesLinesAdded |-> cAdd, changesLinesDeleted |-> cDel, changesFiles |-> cFiles,
     stagedLinesAdded |-> sAdd, stagedLinesDeleted |-> sDel, stagedFiles |-> sFiles,
     error |-> error]

NoStats == LineStats(0, 0, <<>>, 0, 0, <<>>, "NONE")

\* What the promise of getLineStats settles with: a LineStats or null.
Resolved(stats) == [null |-> FALSE, stats |-> stats]

ResolvedNull == [null |-> TRUE, stats |-> NoStats]

\* The locals of a getLineStats call; pc names the await it is suspended at.
NoPass ==
    [pc |-> "none", workingDiff |-> <<>>, files |-> <<>>, lines |-> <<>>, n |-> 0,
     changesLinesAdded |-> 0, changesLinesDeleted |-> 0, changesFiles |-> <<>>,
     stagedLinesAdded |-> 0, stagedLinesDeleted |-> 0, stagedFiles |-> <<>>,
     result |-> ResolvedNull]

Settle(p, result) ==
    [NoPass EXCEPT !.pc = "settled", !.result = result]

\* First index >= n of a line the loop body runs for, or 0.
NextLine(lines, n) ==
    LET rest == {m \in n..Len(lines) : NonBlank(lines[m])}
    IN  IF rest = {} THEN 0 ELSE CHOOSE m \in rest : \A k \in rest : m <= k

\* Lines 454-467: sort both lists and return the LineStats.
ReturnStats(p) ==
    Settle(p, Resolved(LineStats(
        p.changesLinesAdded, p.changesLinesDeleted, SortByNetLines(p.changesFiles),
        p.stagedLinesAdded, p.stagedLinesDeleted, SortByNetLines(p.stagedFiles),
        "NONE")))

\* The staged loop from line n on: suspend at the next getFileTotalLines or finish.
EnterStaged(p, n) ==
    LET m == NextLine(p.lines, n)
    IN  IF m = 0 THEN ReturnStats(p)
        ELSE [p EXCEPT !.pc = "stagedFile", !.n = m,
                       !.stagedLinesAdded = @ + ParseCount(p.lines[m].added),
                       !.stagedLinesDeleted = @ + ParseCount(p.lines[m].removed)]

\* The untracked loop from entry n on, then the await of the staged diff.
EnterUntracked(p, n) ==
    IF n <= Len(UntrackedFiles(p.files))
    THEN [p EXCEPT !.pc = "untrackedFile", !.n = n, !.lines = <<>>]
    ELSE [p EXCEPT !.pc = "stagedDiff", !.n = 0, !.lines = <<>>]

\* The unstaged loop from line n on.
EnterChanges(p, n) ==
    LET m == NextLine(p.lines, n)
    IN  IF m = 0 THEN EnterUntracked(p, 1)
        ELSE [p EXCEPT !.pc = "changesFile", !.n = m,
                       !.changesLinesAdded = @ + ParseCount(p.lines[m].added),
                       !.changesLinesDeleted = @ + ParseCount(p.lines[m].removed)]

\* Faulty variant of StartGetLineStats: the sums start from those the call
\* before returned.
StartGetLineStatsKeepingSums ==
    LET last == IF calls = <<>> THEN NoStats ELSE calls[Len(calls)].p.result.stats
    IN  IF ~repo.rootPath
        THEN Settle(NoPass, Resolved(LineStats(0, 0, <<>>, 0, 0, <<>>, "NO_WORKSPACE")))
        ELSE [NoPass EXCEPT !.pc = "checkIsRepo",
                            !.changesLinesAdded = last.changesLinesAdded,
                            !.changesLinesDeleted = last.changesLinesDeleted,
                            !.stagedLinesAdded = last.stagedLinesAdded,
                            !.stagedLinesDeleted = last.stagedLinesDeleted]

\* Lines 322-338: the call of getLineStats up to its first await.
StartGetLineStats ==
    IF ~repo.rootPath
    THEN Settle(NoPass, Resolved(LineStats(0, 0, <<>>, 0, 0, <<>>, "NO_WORKSPACE")))
    ELSE [NoPass EXCEPT !.pc = "checkIsRepo"]

\* Faulty variant of AfterCheckIsRepo: a root that is no repository returns null.
AfterCheckIsRepoNull(p) ==
    IF repo.isRepo = "throw" THEN Settle(p, ResolvedNull)
    ELSE IF repo.isRepo = "no" THEN Settle(p, ResolvedNull)
    ELSE [p EXCEPT !.pc = "workingDiff"]

\* Lines 340-355: git.checkIsRepo() has settled.
AfterCheckIsRepo(p) ==
    IF repo.isRepo = "throw" THEN Settle(p, ResolvedNull)
    ELSE IF repo.isRepo = "no"
         THEN Settle(p, Resolved(LineStats(0, 0, <<>>, 0, 0, <<>>, "NO_REPO")))
    ELSE [p EXCEPT !.pc = "workingDiff"]

\* Lines 355-358: git.diff(['--numstat']) has settled.
AfterWorkingDiff(p) ==
    IF ~repo.workingDiff.ok THEN Settle(p, ResolvedNull)
    ELSE [p EXCEPT !.pc = "status", !.workingDiff = repo.workingDiff.out]

\* Lines 358-366: git.status() has settled.
AfterStatus(p) ==
    IF ~repo.status.ok THEN Settle(p, ResolvedNull)
    ELSE EnterChanges([p EXCEPT !.files = repo.status.files,
                                !.lines = TrimSplit(p.workingDiff),
                                !.workingDiff = <<>>], 1)

\* Faulty variant of AfterChangesFile: netLines forgets the deleted lines.
AfterChangesFileNetAdded(p) ==
    LET line == p.lines[p.n]
        add == ParseCount(line.added)
        del == ParseCount(line.removed)
        fileStatus == FileStatus(p.files, line.path, "working_dir")
        totalLines == GetFileTotalLines(line.path)
    IN  IF ~totalLines.ok THEN Settle(p, ResolvedNull)
        ELSE EnterChanges(
                [p EXCEPT !.changesFiles = Append(@,
                    FileChange(line.path, add, del, add, fileStatus,
                               totalLines.value))],
                p.n + 1)

\* Lines 368-396: getFileTotalLines has settled for unstaged numstat line p.n.
AfterChangesFile(p) ==
    LET line == p.lines[p.n]
        add == ParseCount(line.added)
        del == ParseCount(line.removed)
        fileStatus == FileStatus(p.files, line.path, "working_dir")
        totalLines == GetFileTotalLines(line.path)
    IN  IF ~totalLines.ok THEN Settle(p, ResolvedNull)
        ELSE EnterChanges(
                [p EXCEPT !.changesFiles = Append(@,
                    FileChange(line.path, add, del, add - del, fileStatus,
                               totalLines.value))],
                p.n + 1)

\* Faulty variant of AfterUntrackedFile: the lines of the file are not added to the sum.
AfterUntrackedFileUnsummed(p) ==
    LET file == UntrackedFiles(p.files)[p.n]
        totalLines == GetFileTotalLines(file.path)
    IN  IF ~totalLines.ok THEN Settle(p, ResolvedNull)
        ELSE EnterUntracked(
                [p EXCEPT !.changesFiles = Append(@,
                    FileChange(file.path, totalLines.value, 0, totalLines.value,
                               "New", totalLines.value))],
                p.n + 1)

\* Lines 399-412: getFileTotalLines has settled for untracked file p.n.
AfterUntrackedFile(p) ==
    LET file == UntrackedFiles(p.files)[p.n]
        totalLines == GetFileTotalLines(file.path)
    IN  IF ~totalLines.ok THEN Settle(p, ResolvedNull)
        ELSE EnterUntracked(
                [p EXCEPT !.changesLinesAdded = @ + totalLines.value,
                          !.changesFiles = Append(@,
                    FileChange(file.path, totalLines.value, 0, totalLines.value,
                               "New", totalLines.value))],
                p.n + 1)

\* Lines 415-422: git.diff(['--cached', '--numstat']) has settled.
AfterStagedDiff(p) ==
    IF ~repo.stagedDiff.ok THEN Settle(p, ResolvedNull)
    ELSE EnterStaged([p EXCEPT !.lines = TrimSplit(repo.stagedDiff.out)], 1)

\* Lines 424-452: getFileTotalLines has settled for staged numstat line p.n.
AfterStagedFile(p) ==
    LET line == p.lines[p.n]
        add == ParseCount(line.added)
        del == ParseCount(line.removed)
        fileStatus == FileStatus(p.files, line.path, "index")
        totalLines == GetFileTotalLines(line.path)
    IN  IF ~totalLines.ok THEN Settle(p, ResolvedNull)
        ELSE EnterStaged(
                [p EXCEPT !.stagedFiles = Append(@,
                    FileChange(line.path, add, del, add - del, fileStatus,
                               totalLines.value))],
                p.n + 1)

(***************************************************************************)
(* Formatter: the completion callback of updateStatusBar.                  *)
(***************************************************************************)
Icon == "$(git-commit) "

Display(text, tooltip) == [text |-> text, tooltip |-> tooltip]

\* Faulty variant of NetLine: the net is printed without its leading plus sign.
NetLineUnsigned(net, add, del) ==
    NumToStr(net) \o " (+" \o NumToStr(add) \o "-" \o NumToStr(del) \o ")"

\* `${net >= 0 ? '+' : ''}${net} (+${add}-${del})`
NetLine(net, add, del) ==
    SignedStr(net) \o " (+" \o NumToStr(add) \o "-" \o NumToStr(del) \o ")"

\* Faulty variant of Basename: the directories stay in the name.
RECURSIVE WholePath(_)
WholePath(path) ==
    IF path = <<>> THEN ""
    ELSE IF Len(path) = 1 THEN path[1]
    ELSE path[1] \o "/" \o WholePath(Tail(path))

\* path.basename(file.path)
Basename(path) == IF path = <<>> THEN "" ELSE path[Len(path)]

FileRow(file) ==
    "  " \o NetLine(file.netLines, file.linesAdded, file.linesDeleted)
         \o "=" \o NumToStr(file.totalLines)
         \o " [" \o file.status \o "] " \o Basename(file.path)

RECURSIVE FileRows(_)
FileRows(files) ==
    IF files = <<>> THEN <<>> ELSE <<FileRow(files[1])>> \o FileRows(Tail(files))

\* lines.join('\n')
RECURSIVE Join(_)
Join(lines) ==
    IF lines = <<>> THEN ""
    ELSE IF Len(lines) = 1 THEN lines[1]
    ELSE lines[1] \o NL \o Join(Tail(lines))

\* Lines 501-546: the status text of a LineStats without error.
SummaryText(stats) ==
    LET changesNetLines == stats.changesLinesAdded - stats.changesLinesDeleted
        stagedNetLines == stats.stagedLinesAdded - stats.stagedLinesDeleted
        totalNetLines == changesNetLines + stagedNetLines
        totalAdd == stats.stagedLinesAdded + stats.changesLinesAdded
        totalDel == stats.stagedLinesDeleted + stats.changesLinesDeleted
        hasStaged == stagedNetLines # 0
        hasChanges == changesNetLines # 0
        singleArea == (hasStaged /\ ~hasChanges) \/ (~hasStaged /\ hasChanges)
        areaNetLines == IF hasStaged THEN stagedNetLines ELSE changesNetLines
        areaAdd == IF hasStaged THEN stats.stagedLinesAdded ELSE stats.changesLinesAdded
        areaDel == IF hasStaged THEN stats.stagedLinesDeleted
                   ELSE stats.changesLinesDeleted
        body ==
            IF singleArea THEN NetLine(areaNetLines, areaAdd, areaDel)
            ELSE (IF stagedNetLines # 0
                  THEN "Staged:" \o NetLine(stagedNetLines, stats.stagedLinesAdded,
                                            stats.stagedLinesDeleted)
                  ELSE "")
              \o (IF changesNetLines # 0
                  THEN (IF stagedNetLines # 0 THEN ", " ELSE "")
                       \o "Changes:" \o NetLine(changesNetLines, stats.changesLinesAdded,
                                                stats.changesLinesDeleted)
                  ELSE "")
              \o (IF stagedNetLines # 0 \/ changesNetLines # 0
                  THEN ", Total:" \o NetLine(totalNetLines, totalAdd, totalDel)
                  ELSE "")
        clean == IF stagedNetLines = 0 /\ changesNetLines = 0 THEN "Clean" ELSE ""
    IN  Icon \o body \o clean

\* Lines 548-567: the tooltip of a LineStats without error.
TooltipText(stats) ==
    LET changesNetLines == stats.changesLinesAdded - stats.changesLinesDeleted
        stagedNetLines == stats.stagedLinesAdded - stats.stagedLinesDeleted
        totalNetLines == changesNetLines + stagedNetLines
        totalAdd == stats.stagedLinesAdded + stats.changesLinesAdded
        totalDel == stats.stagedLinesDeleted + stats.changesLinesDeleted
        stagedTooltip ==
            <<"Staged: " \o NetLine(stagedNetLines, stats.stagedLinesAdded,
                                    stats.stagedLinesDeleted)>>
            \o FileRows(stats.stagedFiles)
        changesTooltip ==
            <<NL \o "Changes: " \o NetLine(changesNetLines, stats.changesLinesAdded,
                                           stats.changesLinesDeleted)>>
            \o FileRows(stats.changesFiles)
        totalTooltip == <<NL \o "Total: " \o NetLine(totalNetLines, totalAdd, totalDel)>>
    IN  Join(stagedTooltip \o changesTooltip \o totalTooltip)

\* Lines 482-567: the .then callback on the settled promise.
OnFulfilled(result) ==
    IF result.null
    THEN Display(Icon \o "Git: Error", "Error getting git status")
    ELSE IF result.stats.error = "NO_WORKSPACE"
    THEN Display(Icon \o "Git: No workspace", "No workspace folder found")
    ELSE IF result.stats.error = "NO_REPO"
    THEN Display(Icon \o "Git: No repo", "No git repository found")
    ELSE Display(SummaryText(result.stats), TooltipText(result.stats))

\* Lines 568-572: the .catch callback.
OnRejected == Display(Icon \o "Git: Error", "Error updating git status")

(***************************************************************************)
(* The answers of the workspace, git and the file system.                  *)
(***************************************************************************)
\* n lines of text, each ended by a newline character.
Lines(n) == [k \in 1..(2 * n) |-> IF k % 2 = 1 THEN "x" ELSE NL]

\* n lines of text, the last one without a newline character.
LinesOpen(n) == SubSeq(Lines(n), 1, 2 * n - 1)

SeqsUpTo(S, n) == UNION {[1..k -> S] : k \in 0..n}

DistinctPaths(s) == \A i, j \in 1..Len(s) : i # j => s[i].path # s[j].path

\* Paths git reports in numstat order, then paths of untracked files.
TrackedPaths == << <<"a.ts">>, <<"src", "b.ts">>, <<"lib", "c.js">>, <<"d.txt">> >>

NewTxt == <<"new.txt">>

NotesMd == <<"docs", "notes.md">>

GoneTmp == <<"gone.tmp">>

UntrackedPaths == {NewTxt, NotesMd, GoneTmp}

AllPaths == {TrackedPaths[n] : n \in 1..Len(TrackedPaths)} \cup UntrackedPaths

Commits == {"c1", "c2"}

GitOut(out) == [ok |-> TRUE, out |-> out]

GitFails == [ok |-> FALSE, out |-> <<>>]

NoHistory == [c \in Commits |-> GitFails]

OnDisk(content) ==
    [exists |-> TRUE, readable |-> TRUE, content |-> content,
     head |-> GitOut(content), log |-> [ok |-> TRUE, all |-> <<"c1">>],
     at |-> [c \in Commits |-> GitOut(content)]]

Vanished ==
    [exists |-> FALSE, readable |-> FALSE, content |-> <<>>,
     head |-> GitFails, log |-> [ok |-> TRUE, all |-> <<>>], at |-> NoHistory]

\* Every way the lookups of one path can answer.
FileStates ==
    {[exists |-> d.exists, readable |-> d.readable, content |-> d.content,
      head |-> h, log |-> l, at |-> [c \in Commits |-> IF c = "c2" THEN a ELSE GitOut(Lines(1))]] :
        d \in {[exists |-> FALSE, readable |-> FALSE, content |-> <<>>],
               [exists |-> TRUE, readable |-> FALSE, content |-> <<>>],
               [exists |-> TRUE, readable |-> TRUE, content |-> <<>>],
               [exists |-> TRUE, readable |-> TRUE, content |-> LinesOpen(2)],
               [exists |-> TRUE, readable |-> TRUE, content |-> Lines(2)]},
        h \in {GitFails, GitOut(Lines(42)), GitOut(LinesOpen(42))},
        l \in {[ok |-> FALSE, all |-> <<>>], [ok |-> TRUE, all |-> <<>>],
               [ok |-> TRUE, all |-> <<"c2">>], [ok |-> TRUE, all |-> <<"c2", "c1">>]},
        a \in {GitFails, GitOut(Lines(7))}}

DefaultFiles ==
    [path \in AllPaths |->
        IF path = NewTxt THEN
            [Vanished EXCEPT !.exists = TRUE, !.readable = TRUE, !.content = Lines(150)]
        ELSE IF path = NotesMd THEN
            [Vanished EXCEPT !.exists = TRUE, !.readable = TRUE, !.content = LinesOpen(150)]
        ELSE IF path = GoneTmp THEN Vanished
        ELSE OnDisk(Lines(3))]

Field(n) == IF n < 10 THEN <<Digits[n + 1]>>
            ELSE <<Digits[(n \div 10) + 1], Digits[(n % 10) + 1]>>

Count(added, removed) == [added |-> Field(added), removed |-> Field(removed)]

\* The counts of a binary file: -\t-
Binary == [added |-> <<"-">>, removed |-> <<"-">>]

\* A numstat output whose n-th line has counts[n] and the n-th tracked path.
Numstat(counts) ==
    [n \in 1..Len(counts) |->
        [added |-> counts[n].added, removed |-> counts[n].removed,
         path |-> TrackedPaths[n]]]

StatusFile(path, index, workingDir) ==
    [path |-> path, index |-> index, working_dir |-> workingDir]

Repo(workingDiff, status, stagedDiff, files) ==
    [rootPath |-> TRUE, isRepo |-> "yes",
     workingDiff |-> GitOut(workingDiff),
     status |-> [ok |-> TRUE, files |-> status],
     stagedDiff |-> GitOut(stagedDiff),
     files |-> files]

\* Repositories that differ in the counts of their two diffs.
CountRepos ==
    {Repo(Numstat(w), <<>>, Numstat(s), DefaultFiles) :
        w \in SeqsUpTo({Count(15, 5), Count(10, 2), Count(5, 5), Count(2, 10), Binary},
                       MaxLines),
        s \in SeqsUpTo({Count(5, 3), Count(2, 10), Count(5, 5)}, MaxStaged)}

StatusFiles ==
    {StatusFile(TrackedPaths[1], x[1], x[2]) :
        x \in {<<" ", "A">>, <<" ", "D">>, <<"A", "D">>}}
    \cup {StatusFile(TrackedPaths[2], "D", " "), StatusFile(TrackedPaths[2], "M", "M")}
    \cup {StatusFile(path, "?", "?") : path \in UntrackedPaths}

\* Repositories that differ in the status listing and in untracked files.
StatusRepos ==
    {Repo(Numstat(w), st, Numstat(sd), DefaultFiles) :
        w \in SeqsUpTo({Count(1, 2), Binary}, MaxLines),
        st \in {x \in SeqsUpTo(StatusFiles, MaxStatus) : DistinctPaths(x)},
        sd \in {<<>>, <<Count(1, 2), Count(1, 2)>>}}

\* Repositories that differ in what the lookups of one changed path answer.
LookupRepos ==
    {Repo(Numstat(<<Count(0, 3)>>), <<StatusFile(TrackedPaths[1], " ", "D")>>, <<>>,
          [DefaultFiles EXCEPT ![TrackedPaths[1]] = f]) :
        f \in FileStates}

BaseRepo ==
    Repo(Numstat(<<Count(2, 1)>>), <<StatusFile(NewTxt, "?", "?")>>,
         Numstat(<<Count(1, 2)>>), DefaultFiles)

\* Repositories in which a step of the pass fails.
FailingRepos ==
    {[BaseRepo EXCEPT !.rootPath = FALSE, !.isRepo = r] : r \in {"yes", "no", "throw"}}
    \cup {[BaseRepo EXCEPT !.isRepo = r] : r \in {"no", "throw"}}
    \cup {[BaseRepo EXCEPT !.workingDiff = GitFails],
          [BaseRepo EXCEPT !.status = [ok |-> FALSE, files |-> <<>>]],
          [BaseRepo EXCEPT !.stagedDiff = GitFails]}

Repos == CountRepos \cup StatusRepos \cup LookupRepos \cup FailingRepos

(***************************************************************************)
(* Timers of the host and updateStatusBar.  A timeout is a record of its   *)
(* handle and the milliseconds until it is due.                            *)
(***************************************************************************)
Timeout(handle, due) == [id |-> handle, due |-> due]

\* clearTimeout(handle): a handle that is null (0), has run or was cleared
\* names no timeout.
ClearTimeout(ts, handle) == {t \in ts : t.id # handle}

\* setTimeout(callback, delay) returning the handle.
SetTimeout(ts, handle, delay) == ts \cup {Timeout(handle, delay)}

\* Faulty variant of UpdateStatusBar: the pending timeout is cleared and none is
\* armed.
UpdateStatusBarOnlyClearing(ts, handle, fresh) == ClearTimeout(ts, handle)

\* Faulty variant of UpdateStatusBar: the pending timeout is not cleared.
UpdateStatusBarKeeping(ts, handle, fresh) == SetTimeout(ts, fresh, Delay)

\* Faulty variant of UpdateStatusBar: nothing is armed while a pass is in flight.
UpdateStatusBarUnlessBusy(ts, handle, fresh) ==
    IF \E i \in 1..Len(calls) : calls[i].p.pc # "done" THEN ts
    ELSE SetTimeout(ClearTimeout(ts, handle), fresh, Delay)

\* Lines 474-481 and 573: updateStatusBar clears the timeout updateTimeout
\* names and arms a new one of 500 ms under the handle fresh.
UpdateStatusBar(ts, handle, fresh) ==
    SetTimeout(ClearTimeout(ts, handle), fresh, Delay)

\* What has happened so far: calls of updateStatusBar, events of the host
\* and changes of the repository after activation, handles setTimeout gave out,
\* milliseconds since the last call of updateStatusBar (counted up to the
\* delay), calls of updateStatusBar that found no debounce timeout pending,
\* and calls of updateStatusBar made while a pass was in flight.
NoEvents ==
    [requested |-> 0, external |-> 0, handles |-> 0, sinceTrigger |-> 0,
     bursts |-> 0, during |-> 0]

(***************************************************************************)
(* The pass as a state machine.                                            *)
(***************************************************************************)
Init ==
    /\ repo \in Repos
    /\ updateTimeout = "pending"
    /\ pass = NoPass
    /\ statusBarItem = Display("", "")
    /\ timers = {}
    /\ calls = <<>>
    /\ events = NoEvents
    /\ disposed = FALSE

\* Lines 481-482: the debounce timer fires and calls getLineStats.
TimeoutCallback ==
    /\ updateTimeout = "pending"
    /\ updateTimeout' = "fired"
    /\ pass' = StartGetLineStats
    /\ UNCHANGED <<repo, statusBarItem, sched>>

CheckIsRepo ==
    /\ pass.pc = "checkIsRepo"
    /\ pass' = AfterCheckIsRepo(pass)
    /\ UNCHANGED <<repo, updateTimeout, statusBarItem, sched>>

WorkingDiff ==
    /\ pass.pc = "workingDiff"
    /\ pass' = AfterWorkingDiff(pass)
    /\ UNCHANGED <<repo, updateTimeout, statusBarItem, sched>>

Status ==
    /\ pass.pc = "status"
    /\ pass' = AfterStatus(pass)
    /\ UNCHANGED <<repo, updateTimeout, statusBarItem, sched>>

ChangesFile ==
    /\ pass.pc = "changesFile"
    /\ pass' = AfterChangesFile(pass)
    /\ UNCHANGED <<repo, updateTimeout, statusBarItem, sched>>

UntrackedFile ==
    /\ pass.pc = "untrackedFile"
    /\ pass' = AfterUntrackedFile(pass)
    /\ UNCHANGED <<repo, updateTimeout, statusBarItem, sched>>

StagedDiff ==
    /\ pass.pc = "stagedDiff"
    /\ pass' = AfterStagedDiff(pass)
    /\ UNCHANGED <<repo, updateTimeout, statusBarItem, sched>>

StagedFile ==
    /\ pass.pc = "stagedFile"
    /\ pass' = AfterStagedFile(pass)
    /\ UNCHANGED <<repo, updateTimeout, statusBarItem, sched>>

\* Lines 482-567: the settled promise runs the completion callback.
Then ==
    /\ pass.pc = "settled"
    /\ statusBarItem' = OnFulfilled(pass.result)
    /\ pass' = [pass EXCEPT !.pc = "done"]
    /\ UNCHANGED <<repo, updateTimeout, sched>>

Next ==
    \/ TimeoutCallback
    \/ CheckIsRepo
    \/ WorkingDiff
    \/ Status
    \/ ChangesFile
    \/ UntrackedFile
    \/ StagedDiff
    \/ StagedFile
    \/ Then

Spec == Init /\ [][Next]_vars

(***************************************************************************)
(* The scheduling of passes.  The state after activate has the status bar  *)
(* item created and updateStatusBar called once (line 588).                *)
(***************************************************************************)
\* A repository in which a pass succeeds after five reads.
QuietRepo ==
    Repo(Numstat(<<Count(2, 1)>>), <<>>, <<>>, [path \in AllPaths |-> OnDisk(Lines(1))])

\* The states the repository goes through, each followed by the next and the
\* last by the first: the four outcomes of a pass.
SchedRepos ==
    <<QuietRepo,
      [QuietRepo EXCEPT !.isRepo = "no"],
      [QuietRepo EXCEPT !.workingDiff = GitFails],
      [QuietRepo EXCEPT !.rootPath = FALSE]>>

RepoAfter(r) ==
    LET n == CHOOSE k \in 1..Len(SchedRepos) : SchedRepos[k] = r
    IN  SchedRepos[(n % Len(SchedRepos)) + 1]

\* A getLineStats call: its locals, and for the properties the number of
\* updateStatusBar calls before its start, the milliseconds its timeout
\* waited since the last of them, the repository states it read and the
\* display its completion callback wrote.
Call(p, after, waited, reads, wrote) ==
    [p |-> p, after |-> after, waited |-> waited, reads |-> reads, wrote |-> wrote]

NotWritten == Display("", "")

\* The function returned: its promise is settled and the .then callback runs
\* before any other event of the host.
Finished(p) == p.pc = "settled"

\* Faulty variant of Continued: the completion callback writes the text and
\* leaves the tooltip as it is.
ContinuedTextOnly(call, p) ==
    [call EXCEPT !.p = IF Finished(p) THEN [p EXCEPT !.pc = "done"] ELSE p,
                 !.reads = @ \cup {repo},
                 !.wrote = IF Finished(p)
                           THEN Display(OnFulfilled(p.result).text, statusBarItem.tooltip)
                           ELSE @]

\* The call after its locals became p with the repository read once more.
Continued(call, p) ==
    [call EXCEPT !.p = IF Finished(p) THEN [p EXCEPT !.pc = "done"] ELSE p,
                 !.reads = @ \cup {repo},
                 !.wrote = IF Finished(p) THEN OnFulfilled(p.result) ELSE @]

\* The await a call is suspended at has settled.
Resumed(p) ==
    CASE p.pc = "checkIsRepo" -> AfterCheckIsRepo(p)
      [] p.pc = "workingDiff" -> AfterWorkingDiff(p)
      [] p.pc = "status" -> AfterStatus(p)
      [] p.pc = "changesFile" -> AfterChangesFile(p)
      [] p.pc = "untrackedFile" -> AfterUntrackedFile(p)
      [] p.pc = "stagedDiff" -> AfterStagedDiff(p)
      [] p.pc = "stagedFile" -> AfterStagedFile(p)

Awaiting(p) ==
    p.pc \in {"checkIsRepo", "workingDiff", "status", "changesFile",
              "untrackedFile", "stagedDiff", "stagedFile"}

\* The body of updateStatusBar run by an event handler or by activate.
CallUpdateStatusBar ==
    /\ timers' = UpdateStatusBar(timers, updateTimeout, events.handles + 1)
    /\ updateTimeout' = events.handles + 1
    /\ events' = [events EXCEPT
            !.requested = @ + 1,
            !.external = @ + 1,
            !.handles = @ + 1,
            !.sinceTrigger = 0,
            !.bursts = @ + (IF timers = {} THEN 1 ELSE 0),
            !.during = @ + (IF \E i \in 1..Len(calls) : Awaiting(calls[i].p)
                            THEN 1 ELSE 0)]

SchedInit ==
    /\ repo \in {SchedRepos[n] : n \in 1..Len(SchedRepos)}
    /\ pass = NoPass
    /\ statusBarItem = NotWritten
    /\ calls = <<>>
    /\ updateTimeout = 1
    /\ timers = UpdateStatusBar({}, 0, 1)
    /\ events = [NoEvents EXCEPT !.requested = 1, !.handles = 1, !.bursts = 1]
    /\ disposed = FALSE

\* Lines 583-656: an event handler registered by activate calls
\* updateStatusBar, at once or, for a closed git terminal, 100 ms later.
Trigger ==
    /\ events.external < MaxEvents
    /\ CallUpdateStatusBar
    /\ UNCHANGED <<repo, pass, statusBarItem, calls, disposed>>

\* d milliseconds pass: half the delay or all of it.
Tick(d) ==
    /\ events.sinceTrigger < Delay \/ \E t \in timers : t.due > 0
    /\ timers' = {Timeout(t.id, IF t.due > d THEN t.due - d ELSE 0) : t \in timers}
    /\ events' = [events EXCEPT
            !.sinceTrigger = IF @ + d < Delay THEN @ + d ELSE Delay]
    /\ UNCHANGED <<repo, updateTimeout, pass, statusBarItem, calls, disposed>>

\* Lines 481-482: the debounce timeout runs and calls getLineStats; a call
\* that returns without an await runs its completion callback at once.
Expire ==
    \E t \in timers :
        /\ t.due = 0
        /\ timers' = timers \ {t}
        /\ LET call == Continued(
                    Call(NoPass, events.requested, events.sinceTrigger, {}, NotWritten),
                    StartGetLineStats)
           IN  /\ calls' = Append(calls, call)
               /\ statusBarItem' = IF Finished(StartGetLineStats) THEN call.wrote
                                   ELSE statusBarItem
        /\ UNCHANGED <<repo, updateTimeout, pass, events, disposed>>

\* The read call i awaits settles: the call runs to its next await, or returns
\* and its completion callback writes the display (lines 482-567).
Resume(i) ==
    /\ Awaiting(calls[i].p)
    /\ \E p \in {Resumed(calls[i].p)} :
          \E call \in {Continued(calls[i], p)} :
              /\ calls' = [calls EXCEPT ![i] = call]
              /\ statusBarItem' = IF Finished(p) THEN call.wrote ELSE statusBarItem
    /\ UNCHANGED <<repo, updateTimeout, pass, timers, events, disposed>>

\* The working tree, the index or the workspace changes.
Edit ==
    /\ events.external < MaxEvents
    /\ repo' = RepoAfter(repo)
    /\ events' = [events EXCEPT !.external = @ + 1]
    /\ UNCHANGED <<updateTimeout, pass, statusBarItem, timers, calls, disposed>>

SchedNext ==
    \/ Trigger
    \/ \E d \in {Delay \div 2, Delay} : Tick(d)
    \/ Expire
    \/ \E i \in 1..Len(calls) : Resume(i)
    \/ Edit

Sched == SchedInit /\ [][SchedNext]_vars

\* What goes on without a new event: time passes, the host runs a due
\* timeout, a read returns or throws.
Progress ==
    \/ \E d \in {Delay \div 2, Delay} : Tick(d)
    \/ Expire
    \/ \E i \in 1..Len(calls) : Resume(i)

\* The host does not stop while a timeout is armed or a read is outstanding.
FairSched == Sched /\ WF_vars(Progress)

\* Lines 659-663: deactivate disposes the status bar item; it clears no
\* timeout and reaches no call of getLineStats.
Deactivate ==
    /\ ~disposed
    /\ disposed' = TRUE
    /\ UNCHANGED <<repo, updateTimeout, pass, statusBarItem, timers, calls, events>>

\* The handlers on the git extension's events (lines 618-626) are not among
\* the subscriptions the host disposes, so a trigger can follow deactivation,
\* as can a timeout and the return of a read.
LifeNext ==
    \/ SchedNext
    \/ Deactivate

Life == SchedInit /\ [][LifeNext]_vars

(***************************************************************************)
(* Vocabulary of the properties.  Expected values are computed from the    *)
(* answers in repo, and expected strings with ToString.                    *)
(***************************************************************************)
Settled == pass.pc \in {"settled", "done"}

Returned == Settled /\ ~pass.result.null

Succeeded == Returned /\ pass.result.stats.error = "NONE"

Committed == pass.pc = "done"

Stats == pass.result.stats

RECURSIVE SumOver(_, _)
SumOver(files, field) ==
    IF files = <<>> THEN 0
    ELSE (IF field = "linesAdded" THEN files[1].linesAdded ELSE files[1].linesDeleted)
         + SumOver(Tail(files), field)

\* The lines git printed for an area, and the untracked entries of the listing.
WorkingRows == repo.workingDiff.out

StagedRows == repo.stagedDiff.out

UntrackedEntries ==
    LET files == repo.status.files
        hits == {n \in 1..Len(files) : files[n].working_dir = "?"}
    IN  [k \in 1..Cardinality(hits) |->
            files[CHOOSE n \in hits : Cardinality({m \in hits : m < n}) = k - 1]]

\* The number a numstat field states; 0 for a field that is no number.
Stated(field) ==
    IF \E n \in 0..99 : Field(n) = field THEN CHOOSE n \in 0..99 : Field(n) = field
    ELSE 0

Newlines(content) == Cardinality({k \in 1..Len(content) : content[k] = NL})

\* The lines of a text as an editor counts them: a final newline ends the
\* last line and starts no further one.
TextLines(content) ==
    Newlines(content)
    + (IF content # <<>> /\ content[Len(content)] # NL THEN 1 ELSE 0)

RecordsOf(files, path) == {n \in 1..Len(files) : files[n].path = path}

Plus(n) == (IF n >= 0 THEN "+" ELSE "") \o ToString(n)

Expect(net, add, del) ==
    Plus(net) \o " (+" \o ToString(add) \o "-" \o ToString(del) \o ")"

ChangesNet == Stats.changesLinesAdded - Stats.changesLinesDeleted

StagedNet == Stats.stagedLinesAdded - Stats.stagedLinesDeleted

\* C1: in every returned LineStats the four sums equal the sums over the two
\* file lists, and a numstat field that is no number counts 0 in its record.
C1_SumsMatchFiles ==
    Returned =>
        /\ Stats.changesLinesAdded = SumOver(Stats.changesFiles, "linesAdded")
        /\ Stats.changesLinesDeleted = SumOver(Stats.changesFiles, "linesDeleted")
        /\ Stats.stagedLinesAdded = SumOver(Stats.stagedFiles, "linesAdded")
        /\ Stats.stagedLinesDeleted = SumOver(Stats.stagedFiles, "linesDeleted")
        /\ Stats.error # "NONE" =>
              Stats.changesFiles = <<>> /\ Stats.stagedFiles = <<>>
        /\ Stats.error = "NONE" =>
              /\ \A n \in 1..Len(WorkingRows) :
                    \A m \in RecordsOf(Stats.changesFiles, WorkingRows[n].path) :
                        /\ Stats.changesFiles[m].linesAdded = Stated(WorkingRows[n].added)
                        /\ Stats.changesFiles[m].linesDeleted = Stated(WorkingRows[n].removed)
              /\ \A n \in 1..Len(StagedRows) :
                    \A m \in RecordsOf(Stats.stagedFiles, StagedRows[n].path) :
                        /\ Stats.stagedFiles[m].linesAdded = Stated(StagedRows[n].added)
                        /\ Stats.stagedFiles[m].linesDeleted = Stated(StagedRows[n].removed)

\* A pass returned sums over a binary file and an untracked file.
C1_Witness ==
    /\ Succeeded
    /\ \E n \in 1..Len(WorkingRows) : WorkingRows[n].added = <<"-">>
    /\ \E m \in 1..Len(Stats.changesFiles) :
            Stats.changesFiles[m].status = "New" /\ Stats.changesFiles[m].linesAdded > 0
    /\ Len(Stats.changesFiles) = 2
    /\ Stats.changesLinesAdded > 0

\* C2: with exactly one area of nonzero net, the status text after the icon is
\* the net and the (+added-deleted) of that area and nothing else.
C2_SingleAreaText ==
    Committed /\ Succeeded =>
        /\ (StagedNet = 0 /\ ChangesNet # 0) =>
              statusBarItem.text = "$(git-commit) "
                  \o Expect(ChangesNet, Stats.changesLinesAdded, Stats.changesLinesDeleted)
        /\ (StagedNet # 0 /\ ChangesNet = 0) =>
              statusBarItem.text = "$(git-commit) "
                  \o Expect(StagedNet, Stats.stagedLinesAdded, Stats.stagedLinesDeleted)
        /\ (Stats.changesLinesAdded = 15 /\ Stats.changesLinesDeleted = 5
             /\ Stats.stagedLinesAdded = Stats.stagedLinesDeleted) =>
              statusBarItem.text = "$(git-commit) +10 (+15-5)"
        /\ (Stats.changesLinesAdded = 2 /\ Stats.changesLinesDeleted = 10
             /\ Stats.stagedLinesAdded = Stats.stagedLinesDeleted) =>
              statusBarItem.text = "$(git-commit) -8 (+2-10)"

\* One unstaged file +15/-5 and nothing staged has been rendered.
C2_Witness ==
    /\ Committed
    /\ Len(Stats.changesFiles) = 1 /\ Stats.stagedFiles = <<>>
    /\ Stats.changesFiles[1].linesAdded = 15 /\ Stats.changesFiles[1].linesDeleted = 5
    /\ statusBarItem.text = "$(git-commit) +10 (+15-5)"

\* C3: with both nets nonzero the status text is Staged, Changes and Total in
\* that order, the total being the sum of the nets, +0 when they cancel.
C3_BothAreasText ==
    Committed /\ Succeeded /\ StagedNet # 0 /\ ChangesNet # 0 =>
        /\ statusBarItem.text = "$(git-commit) Staged:"
              \o Expect(StagedNet, Stats.stagedLinesAdded, Stats.stagedLinesDeleted)
              \o ", Changes:"
              \o Expect(ChangesNet, Stats.changesLinesAdded, Stats.changesLinesDeleted)
              \o ", Total:"
              \o Expect(StagedNet + ChangesNet,
                        Stats.stagedLinesAdded + Stats.changesLinesAdded,
                        Stats.stagedLinesDeleted + Stats.changesLinesDeleted)
        /\ (Stats.stagedLinesAdded = 5 /\ Stats.stagedLinesDeleted = 3
             /\ Stats.changesLinesAdded = 10 /\ Stats.changesLinesDeleted = 2) =>
              statusBarItem.text =
                  "$(git-commit) Staged:+2 (+5-3), Changes:+8 (+10-2), Total:+10 (+15-5)"
        /\ (Stats.stagedLinesAdded = 2 /\ Stats.stagedLinesDeleted = 10
             /\ Stats.changesLinesAdded = 10 /\ Stats.changesLinesDeleted = 2) =>
              statusBarItem.text =
                  "$(git-commit) Staged:-8 (+2-10), Changes:+8 (+10-2), Total:+0 (+12-12)"

\* Nets that cancel have been rendered with a total of +0.
C3_Witness ==
    /\ Committed /\ Succeeded
    /\ StagedNet = -8 /\ ChangesNet = 8
    /\ statusBarItem.text =
          "$(git-commit) Staged:-8 (+2-10), Changes:+8 (+10-2), Total:+0 (+12-12)"

\* C4: the status text is Clean exactly when there are no changes: both file
\* lists are empty and all four sums are 0.
C4_CleanIffNoChanges ==
    Committed /\ Succeeded =>
        (statusBarItem.text = "$(git-commit) Clean"
            <=> /\ Stats.changesFiles = <<>> /\ Stats.stagedFiles = <<>>
                /\ Stats.changesLinesAdded = 0 /\ Stats.changesLinesDeleted = 0
                /\ Stats.stagedLinesAdded = 0 /\ Stats.stagedLinesDeleted = 0)

\* C5: every FileChange of a pass, built or returned, has
\* netLines = linesAdded - linesDeleted.
C5_NetLines ==
    \A files \in {pass.changesFiles, pass.stagedFiles,
                  Stats.changesFiles, Stats.stagedFiles} :
        \A n \in 1..Len(files) :
            files[n].netLines = files[n].linesAdded - files[n].linesDeleted

\* A pass returned a numstat record of negative net and an untracked record.
C5_Witness ==
    /\ Succeeded
    /\ \E n, m \in 1..Len(Stats.changesFiles) :
          /\ Stats.changesFiles[n].netLines < 0
          /\ Stats.changesFiles[m].path \in UntrackedPaths
          /\ Stats.changesFiles[m].netLines > 0
    /\ \E n \in 1..Len(Stats.stagedFiles) : Stats.stagedFiles[n].netLines < 0

\* The paths of an area in the order the pass collects their records.
ChangesOrder ==
    [k \in 1..(Len(WorkingRows) + Len(UntrackedEntries)) |->
        IF k <= Len(WorkingRows) THEN WorkingRows[k].path
        ELSE UntrackedEntries[k - Len(WorkingRows)].path]

StagedOrder == [k \in 1..Len(StagedRows) |-> StagedRows[k].path]

Position(order, path) == CHOOSE k \in 1..Len(order) : order[k] = path

SortedStable(files, order) ==
    /\ Len(files) = Len(order)
    /\ \A k \in 1..Len(order) : Cardinality(RecordsOf(files, order[k])) = 1
    /\ \A n \in 1..(Len(files) - 1) : files[n].netLines >= files[n + 1].netLines
    /\ \A n, m \in 1..Len(files) :
          (n < m /\ files[n].netLines = files[m].netLines)
              => Position(order, files[n].path) < Position(order, files[m].path)

\* C6: both returned file lists are ordered by netLines descending, hold one
\* record per collected path, and keep the collection order among equal nets.
C6_SortedStable ==
    Succeeded =>
        /\ SortedStable(Stats.changesFiles, ChangesOrder)
        /\ SortedStable(Stats.stagedFiles, StagedOrder)

\* An untracked file collected last was sorted to the front of two numstat
\* records of equal net, and two staged records of equal net were returned.
C6_Witness ==
    /\ Succeeded
    /\ Len(Stats.changesFiles) = 3
    /\ Stats.changesFiles[1].path = ChangesOrder[3]
    /\ Stats.changesFiles[2].netLines = Stats.changesFiles[3].netLines
    /\ Stats.changesFiles[2].path = ChangesOrder[1]
    /\ Len(Stats.stagedFiles) = 2
    /\ Stats.stagedFiles[1].netLines = Stats.stagedFiles[2].netLines

NoWorkspace == ~repo.rootPath

NotARepository == repo.rootPath /\ repo.isRepo = "no"

GenericFailure ==
    /\ repo.rootPath
    /\ \/ repo.isRepo = "throw"
       \/ /\ repo.isRepo = "yes"
          /\ ~repo.workingDiff.ok \/ ~repo.status.ok \/ ~repo.stagedDiff.ok

FailureTexts ==
    {"$(git-commit) Git: No workspace", "$(git-commit) Git: No repo",
     "$(git-commit) Git: Error"}

\* C7: no workspace, no repository and an exception render three distinct
\* texts, the workspace check comes first, and only failed passes render them.
C7_FailureTexts ==
    /\ OnRejected.text = "$(git-commit) Git: Error"
    /\ Committed =>
        /\ NoWorkspace => statusBarItem.text = "$(git-commit) Git: No workspace"
        /\ NotARepository => statusBarItem.text = "$(git-commit) Git: No repo"
        /\ GenericFailure => statusBarItem.text = "$(git-commit) Git: Error"
        /\ statusBarItem.text \in FailureTexts
              <=> (NoWorkspace \/ NotARepository \/ GenericFailure)

\* A pass without workspace root was rendered although the root would not
\* have been a repository either.
C7_Witness ==
    /\ Committed
    /\ ~repo.rootPath /\ repo.isRepo = "no"
    /\ statusBarItem.text = "$(git-commit) Git: No workspace"

\* Every lookup of the path fails.
AllLookupsFail(f) ==
    \/ f.exists /\ ~f.readable
    \/ /\ ~f.exists /\ ~f.head.ok
       /\ ~f.log.ok \/ f.log.all = <<>> \/ ~f.at[f.log.all[1]].ok

HasRecord(files, row) ==
    \E m \in 1..Len(files) :
        /\ files[m].path = row.path
        /\ files[m].linesAdded = Stated(row.added)
        /\ files[m].linesDeleted = Stated(row.removed)
        /\ AllLookupsFail(repo.files[row.path]) => files[m].totalLines = 0

\* The path a suspended loop awaits getFileTotalLines for.
AwaitedPath ==
    IF pass.pc = "untrackedFile" THEN UntrackedFiles(pass.files)[pass.n].path
    ELSE pass.lines[pass.n].path

\* C8: the getFileTotalLines call a loop awaits never throws; when the
\* collection itself succeeds the pass returns a LineStats with a record for
\* every numstat line, with its counts, and a total of 0 when every lookup of
\* the file failed.
C8_LookupFailureIsSoft ==
    /\ pass.pc \in {"changesFile", "untrackedFile", "stagedFile"} =>
          GetFileTotalLines(AwaitedPath).ok
    /\ (Settled /\ ~NoWorkspace /\ ~NotARepository /\ ~GenericFailure) =>
          /\ Succeeded
          /\ \A n \in 1..Len(WorkingRows) : HasRecord(Stats.changesFiles, WorkingRows[n])
          /\ \A n \in 1..Len(StagedRows) : HasRecord(Stats.stagedFiles, StagedRows[n])

\* A pass returned the record of a file that is on disk but cannot be read.
C8_Witness ==
    /\ Committed /\ Succeeded
    /\ repo.files[TrackedPaths[1]].exists /\ ~repo.files[TrackedPaths[1]].readable
    /\ ~repo.files[TrackedPaths[1]].head.ok /\ ~repo.files[TrackedPaths[1]].log.ok
    /\ Len(Stats.changesFiles) = 1
    /\ Stats.changesFiles[1].totalLines = 0
    /\ Stats.changesFiles[1].linesDeleted = 3

UntrackedRecord(path, lineCount(_)) ==
    LET f == repo.files[path]
        hits == RecordsOf(Stats.changesFiles, path)
    IN  /\ Cardinality(hits) = 1
        /\ RecordsOf(Stats.stagedFiles, path) = {}
        /\ \A m \in hits :
              LET file == Stats.changesFiles[m]
              IN  /\ file.status = "New"
                  /\ file.linesDeleted = 0
                  /\ file.linesAdded = file.totalLines
                  /\ file.netLines = file.totalLines
                  /\ (f.exists /\ f.readable) => file.totalLines = lineCount(f.content)

Segments(content) == Newlines(content) + 1

\* C9 as stated: every untracked path yields one New record in changesFiles
\* only, with linesAdded = netLines = totalLines = the lines of its content, 150
\* for 150 lines also when the content ends with a newline character.
C9_UntrackedLines ==
    Succeeded =>
        \A k \in 1..Len(UntrackedEntries) :
            UntrackedRecord(UntrackedEntries[k].path, TextLines)

\* C9 as amended: every untracked path yields one New record in changesFiles
\* only, with linesDeleted = 0 and linesAdded = netLines = totalLines = the
\* resolved total, for a readable file its newline characters plus one: 150
\* lines give 150 with an open last line and 151 with a final newline.
C9_UntrackedSegments ==
    Succeeded =>
        \A k \in 1..Len(UntrackedEntries) :
            /\ UntrackedRecord(UntrackedEntries[k].path, Segments)
            /\ \A m \in RecordsOf(Stats.changesFiles, UntrackedEntries[k].path) :
                  LET content == repo.files[UntrackedEntries[k].path].content
                  IN  /\ content = Lines(150) => Stats.changesFiles[m].linesAdded = 151
                      /\ content = LinesOpen(150) => Stats.changesFiles[m].linesAdded = 150

\* An untracked file of 150 lines ending with a newline was returned.
C9_Witness ==
    /\ Succeeded
    /\ repo.files[NewTxt].content = Lines(150)
    /\ \E m \in 1..Len(Stats.changesFiles) :
          /\ Stats.changesFiles[m].path = NewTxt
          /\ Stats.changesFiles[m].status = "New"
          /\ Stats.changesFiles[m].totalLines = 151

\* The total the sources give in their order: disk, HEAD, the first commit the
\* history lists, else 0.
ExpectedTotal(f) ==
    IF f.exists THEN (IF f.readable THEN Segments(f.content) ELSE 0)
    ELSE IF f.head.ok THEN Segments(f.head.out)
    ELSE IF f.log.ok /\ f.log.all # <<>> /\ f.at[f.log.all[1]].ok
         THEN Segments(f.at[f.log.all[1]].out)
    ELSE 0

AllRecords ==
    {Stats.changesFiles[n] : n \in 1..Len(Stats.changesFiles)}
    \cup {Stats.stagedFiles[n] : n \in 1..Len(Stats.stagedFiles)}

\* C10 as stated: a file absent from disk and present in HEAD with 42 lines
\* resolves to totalLines = 42.
C10_HeadFortyTwo ==
    Succeeded =>
        \A file \in AllRecords :
            LET f == repo.files[file.path]
            IN  (~f.exists /\ f.head.ok /\ TextLines(f.head.out) = 42)
                    => file.totalLines = 42

\* C10 as amended: the total is the newline count plus one of the first source
\* in the order disk (0 when the existing file cannot be read), HEAD, first
\* commit listed by the history, else 0; 42 lines at HEAD give 43 with a final
\* newline and 42 with an open last line, whatever the history holds.
C10_ResolutionOrder ==
    Succeeded =>
        \A file \in AllRecords :
            LET f == repo.files[file.path]
            IN  /\ file.totalLines = ExpectedTotal(f)
                /\ (~f.exists /\ f.head = GitOut(Lines(42))) => file.totalLines = 43
                /\ (~f.exists /\ f.head = GitOut(LinesOpen(42))) => file.totalLines = 42

\* A deleted file was resolved from HEAD although the history lists commits
\* with other content.
C10_Witness ==
    /\ Committed /\ Succeeded
    /\ Len(Stats.changesFiles) = 1
    /\ LET f == repo.files[Stats.changesFiles[1].path]
       IN  /\ ~f.exists /\ f.head = GitOut(Lines(42))
           /\ f.log.ok /\ f.log.all = <<"c2", "c1">> /\ f.at["c2"].ok
    /\ Stats.changesFiles[1].totalLines = 43

(***************************************************************************)
(* Vocabulary of the properties of the scheduling.                         *)
(***************************************************************************)
Started == 1..Len(calls)

Done(i) == calls[i].p.pc = "done"

InFlight == {i \in Started : ~Done(i)}

\* Every read of call i saw the one repository state r.
ReadOnly(i, r) == calls[i].reads = {r}

\* C11: two completed passes that read the same single repository state
\* returned the same result and wrote the same status text and tooltip,
\* whichever ran first and whatever ran before them.
C11_SameReadsSameDisplay ==
    \A i, j \in Started :
        (Done(i) /\ Done(j) /\ \E r \in calls[i].reads : ReadOnly(i, r) /\ ReadOnly(j, r))
            => /\ calls[i].p.result = calls[j].p.result
               /\ calls[i].wrote.text = calls[j].wrote.text
               /\ calls[i].wrote.tooltip = calls[j].wrote.tooltip

\* Two passes have run one after the other against the same repository with
\* changes, and the display shows what both wrote.
C11_Witness ==
    /\ Len(calls) = 2 /\ Done(1) /\ Done(2)
    /\ ReadOnly(1, QuietRepo) /\ ReadOnly(2, QuietRepo)
    /\ statusBarItem = calls[1].wrote
    /\ statusBarItem.text = "$(git-commit) +1 (+2-1)"

\* C12: at most one debounce timeout is pending, it is the one updateTimeout
\* names and it is due 500 ms after the last call of updateStatusBar; every
\* pass started when 500 ms had passed since the last call before it; and the
\* calls that found no timeout pending, each opening a burst, are as many as
\* the passes started plus the timeout pending: one pass for each burst.
C12_OneTimerOnePassPerBurst ==
    /\ Cardinality(timers) <= 1
    /\ \A t \in timers :
          /\ t.id = updateTimeout
          /\ t.due = Delay - events.sinceTrigger
    /\ \A i \in Started : calls[i].waited >= Delay
    /\ \A i, j \in Started : i < j => calls[i].after < calls[j].after
    /\ Len(calls) + Cardinality(timers) = events.bursts

\* Three calls of updateStatusBar, each before the timeout of the one before
\* ran, have started one pass, 500 ms after the third.
C12_Witness ==
    /\ events.requested = 3 /\ events.bursts = 1
    /\ timers = {}
    /\ Len(calls) = 1
    /\ calls[1].after = 3 /\ calls[1].waited = Delay

(***************************************************************************)
(* The tooltip, the status of a record and the total of an existing file.  *)
(***************************************************************************)
\* The row of a file as the tooltip is to show it.
ExpectRow(file) ==
    "  " \o Expect(file.netLines, file.linesAdded, file.linesDeleted)
         \o "=" \o ToString(file.totalLines)
         \o " [" \o file.status \o "] " \o file.path[Len(file.path)]

\* The rows of a list, each on a line of its own below the header.
RECURSIVE ExpectRows(_)
ExpectRows(files) ==
    IF files = <<>> THEN ""
    ELSE "\n" \o ExpectRow(files[1]) \o ExpectRows(Tail(files))

\* C13: the tooltip of a successful pass is the Staged header and the rows of
\* the staged list, a blank line, the Changes header and the rows of the
\* unstaged list, a blank line and the Total line, whose net is the sum of the
\* two nets and the difference of the summed additions and deletions; the rows
\* of a list follow its descending net; a row names the last path segment;
\* without changes the three lines read +0 (+0-0).
C13_TooltipLayout ==
    Committed /\ Succeeded =>
        /\ statusBarItem.tooltip =
              "Staged: "
              \o Expect(StagedNet, Stats.stagedLinesAdded, Stats.stagedLinesDeleted)
              \o ExpectRows(Stats.stagedFiles)
              \o "\n\nChanges: "
              \o Expect(ChangesNet, Stats.changesLinesAdded, Stats.changesLinesDeleted)
              \o ExpectRows(Stats.changesFiles)
              \o "\n\nTotal: "
              \o Expect(StagedNet + ChangesNet,
                        Stats.stagedLinesAdded + Stats.changesLinesAdded,
                        Stats.stagedLinesDeleted + Stats.changesLinesDeleted)
        /\ \A files \in {Stats.stagedFiles, Stats.changesFiles} :
              \A n \in 1..(Len(files) - 1) : files[n].netLines >= files[n + 1].netLines
        /\ StagedNet + ChangesNet =
              (Stats.stagedLinesAdded + Stats.changesLinesAdded)
              - (Stats.stagedLinesDeleted + Stats.changesLinesDeleted)
        /\ (WorkingRows = <<>> /\ StagedRows = <<>> /\ UntrackedEntries = <<>>) =>
              statusBarItem.tooltip =
                  "Staged: +0 (+0-0)\n\nChanges: +0 (+0-0)\n\nTotal: +0 (+0-0)"

\* A tooltip with one staged row and two unstaged rows, one of them for a file
\* in a directory, has been written.
C13_Witness ==
    /\ Committed /\ Succeeded
    /\ Len(Stats.changesFiles) = 2 /\ Len(Stats.changesFiles[2].path) = 2
    /\ statusBarItem.tooltip =
          "Staged: +2 (+5-3)\n  +2 (+5-3)=4 [Mod] a.ts\n\n"
          \o "Changes: +18 (+25-7)\n  +10 (+15-5)=4 [Mod] a.ts\n  +8 (+10-2)=4 [Mod] b.ts\n\n"
          \o "Total: +20 (+30-10)"

\* The entries the status listing has for a path.
EntriesOf(path) ==
    {repo.status.files[n] : n \in {m \in 1..Len(repo.status.files) :
                                      repo.status.files[m].path = path}}

\* The status the slot characters of a path's entries give.
StatusBy(slots) ==
    IF slots = {"A"} THEN "New" ELSE IF slots = {"D"} THEN "Del" ELSE "Mod"

\* C14: the record of a numstat line is New when the listing's entry for its
\* path has A in the slot of the record's area, Del when it has D there, and
\* Mod otherwise, also without an entry and whatever the other slot holds.
C14_StatusBySlot ==
    Succeeded =>
        /\ \A n \in 1..Len(WorkingRows) :
              \A m \in RecordsOf(Stats.changesFiles, WorkingRows[n].path) :
                  Stats.changesFiles[m].status =
                      StatusBy({e.working_dir : e \in EntriesOf(WorkingRows[n].path)})
        /\ \A n \in 1..Len(StagedRows) :
              \A m \in RecordsOf(Stats.stagedFiles, StagedRows[n].path) :
                  Stats.stagedFiles[m].status =
                      StatusBy({e.index : e \in EntriesOf(StagedRows[n].path)})

\* A path added in the index and deleted in the working tree is Del in the
\* unstaged list and New in the staged list, beside a path without an entry.
C14_Witness ==
    /\ Succeeded
    /\ EntriesOf(TrackedPaths[1]) = {StatusFile(TrackedPaths[1], "A", "D")}
    /\ EntriesOf(TrackedPaths[2]) = {}
    /\ \E m \in RecordsOf(Stats.changesFiles, TrackedPaths[1]) :
          Stats.changesFiles[m].status = "Del"
    /\ \E m \in RecordsOf(Stats.stagedFiles, TrackedPaths[1]) :
          Stats.stagedFiles[m].status = "New"
    /\ \E m \in RecordsOf(Stats.stagedFiles, TrackedPaths[2]) :
          Stats.stagedFiles[m].status = "Mod"

\* C15 as stated: the total of a file that exists on disk is the number of
\* newline characters of its content plus one, so at least 1, and a total of
\* 0 means that resolution failed.
C15_ExistingAtLeastOne ==
    Succeeded =>
        \A file \in AllRecords :
            LET f == repo.files[file.path]
            IN  /\ f.exists =>
                      file.totalLines = Segments(f.content) /\ file.totalLines >= 1
                /\ file.totalLines = 0 => AllLookupsFail(f)

\* C15 as amended: the total of a file that exists on disk and can be read is
\* the number of newline characters of its content plus one, 1 for an empty
\* file, so at least 1; an existing file whose read throws has the total 0;
\* and a total of 0 means that resolution failed.
C15_ReadableAtLeastOne ==
    Succeeded =>
        \A file \in AllRecords :
            LET f == repo.files[file.path]
            IN  /\ (f.exists /\ f.readable) =>
                      /\ file.totalLines = Segments(f.content)
                      /\ file.totalLines >= 1
                      /\ f.content = <<>> => file.totalLines = 1
                      /\ f.content = Lines(2) => file.totalLines = 3
                /\ (f.exists /\ ~f.readable) => file.totalLines = 0
                /\ file.totalLines = 0 => AllLookupsFail(f)

\* The record of an existing empty file was returned with the total 1.
C15_Witness ==
    /\ Succeeded
    /\ \E file \in AllRecords :
          LET f == repo.files[file.path]
          IN  f.exists /\ f.readable /\ f.content = <<>> /\ file.totalLines = 1

(***************************************************************************)
(* Passes that overlap.                                                    *)
(***************************************************************************)
\* C16: no two passes are in flight at the same time: from the start of a
\* pass to the write of its display no other pass starts.
C16_OnePassInFlight == Cardinality(InFlight) <= 1

\* A pass started 500 ms or more after call k of updateStatusBar or a later one.
StartedAfter(k) ==
    \E j \in Started : calls[j].after >= k /\ calls[j].waited >= Delay

\* Every pass that a call of updateStatusBar followed has completed and
\* written its display, and a pass started after that call.
TriggersServed ==
    \A i \in Started :
        \A k \in (calls[i].after + 1)..events.requested :
            Done(i) /\ calls[i].wrote # NotWritten /\ StartedAfter(k)

\* C17: a call of updateStatusBar leaves every pass in flight and the display
\* as they are; and in the end every pass during or after which a call was
\* made has completed and written its display, and a pass has started 500 ms
\* or more after that call.
C17_TriggerWhileComputing ==
    /\ [][events'.requested > events.requested =>
            calls' = calls /\ statusBarItem' = statusBarItem]_vars
    /\ <>[]TriggersServed

\* The one trigger after activation arrived while the first pass was in
\* flight; that pass has written its display and a second pass has started.
C17_Witness ==
    /\ events.requested = 2 /\ events.during = 1
    /\ Len(calls) = 2
    /\ calls[1].after = 1 /\ Done(1) /\ statusBarItem = calls[1].wrote
    /\ calls[2].after = 2 /\ calls[2].waited = Delay /\ 2 \in InFlight

(***************************************************************************)
(* The display.                                                            *)
(***************************************************************************)
\* Pass i completes in the step.
Completes(i) ==
    /\ i \in 1..Len(calls')
    /\ calls'[i].p.pc = "done"
    /\ i \in Started => ~Done(i)

\* The display shows the text and the tooltip of the result of pass i.
Shows(display, i) ==
    /\ display.text = OnFulfilled(calls[i].p.result).text
    /\ display.tooltip = OnFulfilled(calls[i].p.result).tooltip

\* C18: the display changes only in a step in which a pass completes, and then
\* to the text and the tooltip of that pass's result; so it is unwritten while
\* no pass has completed and shows text and tooltip of one completed pass after.
C18_WrittenByCompletion ==
    /\ [][statusBarItem' # statusBarItem =>
            \E i \in 1..(MaxEvents + 1) :
                /\ Completes(i)
                /\ statusBarItem' = OnFulfilled(calls'[i].p.result)]_vars
    /\ [](IF \E i \in Started : Done(i)
          THEN \E i \in Started : Done(i) /\ Shows(statusBarItem, i)
          ELSE statusBarItem = NotWritten)

\* The display shows the first pass while a second pass, started after a
\* trigger, has made two reads and a further trigger has armed the timeout.
C18_Witness ==
    /\ Len(calls) = 2 /\ Done(1) /\ calls[2].p.pc = "status"
    /\ timers # {} /\ events.requested = 3
    /\ Shows(statusBarItem, 1)
    /\ statusBarItem.text = "$(git-commit) +1 (+2-1)"

\* The four texts a pass can write: the summary of the repository of SchedRepos
\* that has changes, and the three failures.
Outcomes ==
    {"$(git-commit) +1 (+2-1)", "$(git-commit) Git: No workspace",
     "$(git-commit) Git: No repo", "$(git-commit) Git: Error"}

\* Nothing is pending: no timeout, no pass in flight, a pass has started after
\* the last trigger, and every pass started has written text and tooltip of its
\* result, one of the four outcomes.
Idle ==
    /\ timers = {}
    /\ InFlight = {}
    /\ \E i \in Started : calls[i].after = events.requested
    /\ \A i \in Started :
          /\ calls[i].wrote = OnFulfilled(calls[i].p.result)
          /\ calls[i].wrote.text \in Outcomes
          /\ calls[i].wrote.tooltip # ""
    /\ \E i \in Started : statusBarItem = calls[i].wrote

\* C19: once the triggers have stopped, and with every timeout and every read
\* eventually returning, the extension comes to rest in Idle and stays there: a
\* pass has started after the last trigger, every pass has completed and
\* written its text and tooltip, whatever its outcome, and no timeout is pending.
C19_EventuallyIdle == <>[]Idle

\* At rest after two passes of different failing outcomes: the first found no
\* repository, the second, started after a trigger, had git diff fail.
C19_Witness ==
    /\ Idle /\ Len(calls) = 2 /\ events.requested = 2
    /\ calls[1].wrote = Display("$(git-commit) Git: No repo", "No git repository found")
    /\ calls[2].wrote = Display("$(git-commit) Git: Error", "Error getting git status")
    /\ statusBarItem = calls[2].wrote

\* C20: with no timeout pending and every pass started completed, the display
\* shows what the pass that started last wrote.
C20_LastStartedShown ==
    (timers = {} /\ InFlight = {} /\ Started # {})
        => statusBarItem = calls[Len(calls)].wrote

\* C21: once the status bar item is disposed, no call of getLineStats starts,
\* none completes, and the text and the tooltip stay as they are.
C21_NoWriteAfterDispose ==
    [][disposed =>
          /\ Len(calls') = Len(calls)
          /\ \A i \in Started : ~Completes(i)
          /\ statusBarItem' = statusBarItem]_vars

====
